---- MODULE Spec2Model ----
(***************************************************************************)
(* Model of util/trace/tracevis.py: the conversion of Snitch / Banshee     *)
(* instruction traces into Trace-Viewer events.                            *)
(*                                                                         *)
(* A trace line is modelled by the outcome of the two regular expressions  *)
(* the script applies to it (re_line, re_acc_line) and by the fields they  *)
(* capture.  A comment is modelled by the sequence of the annotations the  *)
(* script looks for in it: "ld" stands for the text "<reg>  <~~ Word" of   *)
(* a load that was issued, "done" for the text "(lsu) <reg>  <--" of a     *)
(* load that retired.                                                      *)
(***************************************************************************)
EXTENDS Integers, Sequences, FiniteSets, TLC

(***************************************************************************)
(* Bounds of the model.                                                    *)
(***************************************************************************)
MaxFiles  == 2    \* trace files on the command line
MaxLines  == 13   \* lines of one trace file
MaxRich   == 3    \* a file of at most MaxRich+1 lines may hold any lines
MaxPrefix == 2    \* a longer file holds plain instructions after these
MaxCalls  == 1030 \* calls of the cached symbolizer in SpecCache
MaxMulti  == 5    \* lines of all files of a run with several files

(***************************************************************************)
(* Program constants.                                                      *)
(***************************************************************************)
FlushThreshold == 10   \* parse_line: if len(buf) > 10
ArgStart       == 0    \* --start, default
ArgEnd         == -1   \* --end, default

elf == "a.elf"

Regs  == {"a4", "a5"}
Harts == {"0003", "0005"}

(***************************************************************************)
(* Comments: sequences of annotations.                                     *)
(***************************************************************************)
Ld(r)   == [t |-> "ld",   reg |-> r]
Done(r) == [t |-> "done", reg |-> r]

NoCmt == <<>>

\* '<~~ Word' in cmt
HasLoadMarker(cmt) == \E i \in 1..Len(cmt) : cmt[i].t = "ld"

\* re_load.search(cmt).group(1): the register of the leftmost match.  The
\* register part of re_load may match the empty string, so the search finds
\* a match whenever the marker is in the comment.
ReLoadSearch(cmt) ==
  IF HasLoadMarker(cmt)
  THEN LET i == CHOOSE k \in 1..Len(cmt) :
                  /\ cmt[k].t = "ld"
                  /\ \A j \in 1..(k-1) : cmt[j].t # "ld"
       IN  <<cmt[i].reg>>
  ELSE <<>>

\* f'(lsu) {dst_reg}  <--'
MkPat(dst_reg) == Done(dst_reg)

\* a test that forgets the pattern
PatIn_Always(pat, cmt) == TRUE

\* s['pat'] in cmt
PatIn(pat, cmt) == \E i \in 1..Len(cmt) : cmt[i] = pat

(***************************************************************************)
(* Trace lines.  A line is what re_line and re_acc_line make of it: kind   *)
(* "instr" matches re_line, kind "acc" matches only re_acc_line, kind      *)
(* "other" matches neither.  The fields are the stripped groups.  The time *)
(* stamps of a file are those of its line numbers: cycles 10, 12, 15, 16,  *)
(* 18, 21, ... (gaps 2, 3, 1) and 1000 units of time per cycle.            *)
(***************************************************************************)
CycAt(n)  == 10 + 6 * ((n - 1) \div 3) + (IF (n - 1) % 3 = 0 THEN 0 ELSE IF (n - 1) % 3 = 1 THEN 2 ELSE 5)
TimeAt(n) == 1000 * CycAt(n) + 1000

\* RTL_REGEX, groups 1..7
RtlInstr(n, cmt) ==
  [kind |-> "instr", time |-> TimeAt(n), cyc |-> CycAt(n), priv |-> "M",
   pc |-> IF n % 2 = 1 THEN "0x00001000" ELSE "0x00001004",
   instr |-> IF HasLoadMarker(cmt) THEN "lw" ELSE "addi",
   args |-> "a5, a5, 1", cmt |-> cmt]

\* BANSHEE_REGEX, groups 1..7: cycle, instret, hart id, pc, mnemonic, blanks
\* (stripped to the empty string), instruction arguments
BansheeInstr(n, hart) ==
  [kind |-> "instr", time |-> CycAt(n), cyc |-> n, priv |-> hart,
   pc |-> IF n % 2 = 1 THEN "00001000" ELSE "00001004",
   instr |-> "addi", args |-> "", cmt |-> NoCmt]

\* ACC_LINE_REGEX, groups 1..4
AccLine(n, cmt) ==
  [kind |-> "acc", time |-> TimeAt(n), cyc |-> CycAt(n), priv |-> "M",
   pc |-> "", instr |-> "", args |-> "", cmt |-> cmt]

OtherLine ==
  [kind |-> "other", time |-> 0, cyc |-> 0, priv |-> "",
   pc |-> "", instr |-> "", args |-> "", cmt |-> NoCmt]

\* Ld(""): the marker with no lower-case register name in front of it
RtlComments ==
  {NoCmt, <<Ld("a4")>>, <<Ld("a5")>>, <<Done("a5")>>, <<Done("a5"), Ld("a5")>>,
   <<Ld("")>>}

\* the lines a file may hold at line number n
PlainLine(b, n) == IF b THEN BansheeInstr(n, "0003") ELSE RtlInstr(n, NoCmt)

\* the lines a run of several files may hold at line number n
MultiLinesAt(b, n) ==
  IF b
  THEN {BansheeInstr(n, h) : h \in Harts}
  ELSE {RtlInstr(n, <<Ld("a5")>>), RtlInstr(n, <<Done("a5")>>)}

LinesAt(b, n) ==
  IF b
  THEN {BansheeInstr(n, h) : h \in Harts} \cup {OtherLine}
  ELSE {RtlInstr(n, c) : c \in RtlComments}
         \cup {AccLine(n, <<Done("a4")>>), OtherLine}

\* the record parse_line and offload_lookahead build from a match
RecOf(line) ==
  [time |-> line.time, cyc |-> line.cyc, priv |-> line.priv, pc |-> line.pc,
   instr |-> line.instr, args |-> line.args, cmt |-> line.cmt]

\* list[start:end]
PySlice(s, start, end) ==
  LET n     == Len(s)
      Clamp(i) == LET j == IF i < 0 THEN i + n ELSE i
                  IN  IF j < 0 THEN 0 ELSE IF j > n THEN n ELSE j
      lo    == Clamp(start)
      hi    == Clamp(end)
  IN  IF hi <= lo THEN <<>> ELSE SubSeq(s, lo + 1, hi)

(***************************************************************************)
(* Configuration and state.                                                *)
(***************************************************************************)
VARIABLES
  a2l_fault,    \* what addr2line prints: "none" is its full output
  npcs,         \* number of distinct program counters in the traces
  exc,          \* the exception that ended the script, "" when none
  ntraces,      \* len(traces)
  banshee,      \* args.banshee
  use_time,     \* args.time
  cache,        \* not args.no_cache
  phase,        \* where the script is: "open", "read", "lah", "parse",
                \* "resolve", "done", "error"
  fileno,       \* number of the trace file being processed
  hartid,       \* hart id derived from the file name
  file_lines,   \* the lines of the trace file, as readlines() returns them
  all_lines,    \* f.readlines()[args.start:args.end]
  idx,          \* lines of all_lines the running loop has consumed
  lah,          \* global lah: issue time -> completion time
  loc,          \* locals of offload_lookahead: lah, searches, time, cyc, cmt
  buf,          \* global buf: the window of decoded records
  a2l_cache,    \* addresses held by lru_cache of addr2line_cache, oldest first
  a2l_calls,    \* addresses the external addr2line was started for, in order
  output_file,  \* what was written to the output file, in order
  lines,        \* lines counted by the per-file loop
  fails,        \* sum of the values parse_line returned
  last_cyc,     \* global last_time, last_cyc (kept as the pair's cycle)
  nread,        \* lines read in this run, over all files
  decoded       \* every record appended to buf, in order, with its file

vars == <<a2l_fault, npcs, exc, ntraces, banshee, use_time, cache, phase, fileno, hartid, file_lines,
          all_lines, idx, lah, loc, buf, a2l_cache, a2l_calls, output_file,
          lines, fails, last_cyc, nread, decoded>>

EmptyMap == [t \in {} |-> 0]

MapPut(m, k, v) == [t \in DOMAIN m \cup {k} |-> IF t = k THEN v ELSE m[t]]

\* the time stamp of a record in the configured basis
\*   int(time) if use_time else int(cyc)
Basis(rec) == IF use_time THEN rec.time ELSE rec.cyc

(***************************************************************************)
(* offload_lookahead, one iteration of its loop over the lines.            *)
(***************************************************************************)
NoLocals ==
  [lah |-> EmptyMap, searches |-> <<>>, bound |-> FALSE,
   time |-> 0, cyc |-> 0, cmt |-> NoCmt, warned |-> 0]

\* list.remove(r): drops the first element equal to r
RECURSIVE ListRemove(_, _)
ListRemove(s, r) ==
  IF s = <<>> THEN <<>>
  ELSE IF Head(s) = r THEN Tail(s)
  ELSE <<Head(s)>> \o ListRemove(Tail(s), r)

RECURSIVE RemoveAll(_, _)
RemoveAll(s, removes) ==
  IF removes = <<>> THEN s
  ELSE RemoveAll(ListRemove(s, Head(removes)), Tail(removes))

\* lines 251-263: a match of re_line sets the locals and registers a search
RegisterSearch(L, line) ==
  LET t == Basis(RecOf(line))
      m == ReLoadSearch(line.cmt)
  IN  [L EXCEPT
         !.bound = TRUE, !.time = t, !.cyc = line.cyc, !.cmt = line.cmt,
         !.searches =
            IF HasLoadMarker(line.cmt) /\ m # <<>>
            THEN Append(L.searches, [pat |-> MkPat(m[1]), start |-> t])
            ELSE L.searches,
         !.warned =
            IF HasLoadMarker(line.cmt) /\ m = <<>> THEN L.warned + 1
            ELSE L.warned]

\* lines 266-270: a match of re_acc_line sets the locals
AccLocals(L, line) ==
  [L EXCEPT !.bound = TRUE, !.time = Basis(RecOf(line)),
            !.cyc = line.cyc, !.cmt = line.cmt]

\* lines 274-280: every open search whose pattern is in cmt is closed
CheckSearches(L) ==
  LET removes == SelectSeq(L.searches, LAMBDA s : PatIn(s.pat, L.cmt))
      RECURSIVE Put(_, _)
      Put(m, rs) == IF rs = <<>> THEN m
                    ELSE Put(MapPut(m, Head(rs).start, L.time), Tail(rs))
  IN  [L EXCEPT !.lah = Put(L.lah, removes),
                !.searches = RemoveAll(L.searches, removes)]

\* the body of the loop; line 272 reads time or cyc, which no line has set
\* yet when the first line matches neither expression
LookaheadLine(L, line) ==
  LET L1 == IF line.kind = "instr" THEN RegisterSearch(L, line)
            ELSE IF line.kind = "acc" THEN AccLocals(L, line)
            ELSE L
  IN  IF ~L1.bound
      THEN [err |-> TRUE,  loc |-> L1]
      ELSE [err |-> FALSE, loc |-> CheckSearches(L1)]

(***************************************************************************)
(* The external addr2line (-f -a -i) and addr2line_cache.                  *)
(***************************************************************************)
CacheSize == 1024   \* lru_cache(maxsize=1024)

\* int(addr, base=16)
IntBase16(pc) ==
  IF pc \in {"0x00001000", "00001000"} THEN 4096
  ELSE IF pc \in {"0x00001004", "00001004"} THEN 4100
  ELSE 0

\* the addresses of the program counters of the trace lines
Pcs == {4096, 4100}

\* what addr2line prints for one address: the address, the function and the
\* origin, then a function and an origin for every frame it was inlined into
A2lBlock(addr) ==
  IF addr = 4096 THEN <<"0x0000000000001000", "main", "main.c:10">>
  ELSE IF addr = 4100
  THEN <<"0x0000000000001004", "ld_word", "util.h:3", "main", "main.c:12">>
  ELSE <<>>

\* the lines the tool does print for one address: all of them, or nothing
\* or only the first two for the address 4100 when the tool fails on it
A2lLines(addr) ==
  IF addr = 4100 /\ a2l_fault = "empty" THEN <<>>
  ELSE IF addr = 4100 /\ a2l_fault = "short" THEN SubSeq(A2lBlock(addr), 1, 2)
  ELSE A2lBlock(addr)

\* line.startswith('0x')
StartsWith0x(l) == l \in {"0x0000000000001000", "0x0000000000001004"}

RECURSIVE A2lOutput(_)
A2lOutput(addrs) ==
  IF addrs = <<>> THEN <<>>
  ELSE A2lLines(Head(addrs)) \o A2lOutput(Tail(addrs))

\* os.popen(cmd).read().split('\n'): the printed lines and the empty string
\* that follows the last newline
Popen(addrs) == A2lOutput(addrs) \o <<"">>

\* the empty string after the last newline kept
DropLast_Keep(s) == s

\* list[:-1]
DropLast(s) == PySlice(s, 0, -1)

Count(m, k) == IF k \in DOMAIN m THEN m[k] ELSE 0

\* the entry evicted one insertion early
CacheCall_EvictAtCapacity(c, addr) ==
  LET hit  == \E i \in 1..Len(c.cache) : c.cache[i] = addr
      rest == SelectSeq(c.cache, LAMBDA a : a # addr)
      ins  == Append(rest, addr)
  IN  [cache |-> IF ~hit /\ Len(ins) >= CacheSize THEN Tail(ins) ELSE ins,
       calls |-> IF hit THEN c.calls
                 ELSE MapPut(c.calls, addr, Count(c.calls, addr) + 1),
       a2ls  |-> c.a2ls \o DropLast(Popen(<<addr>>))]

\* addr2line_cache(addr) under lru_cache: a hit moves the address to the
\* newest place, a miss runs the tool and evicts the oldest entry when full
CacheCall(c, addr) ==
  LET hit  == \E i \in 1..Len(c.cache) : c.cache[i] = addr
      rest == SelectSeq(c.cache, LAMBDA a : a # addr)
      ins  == Append(rest, addr)
  IN  [cache |-> IF ~hit /\ Len(ins) > CacheSize THEN Tail(ins) ELSE ins,
       calls |-> IF hit THEN c.calls
                 ELSE MapPut(c.calls, addr, Count(c.calls, addr) + 1),
       a2ls  |-> c.a2ls \o DropLast(Popen(<<addr>>))]

RECURSIVE CachedResolve(_, _)
CachedResolve(c, pcs) ==
  IF pcs = <<>> THEN c
  ELSE CachedResolve(CacheCall(c, IntBase16(Head(pcs))), Tail(pcs))

\* lines 72-80: the symbol lines of all program counters of the buffer; in
\* the uncached mode one run of the tool, counted under the key 0
Resolve(b) ==
  LET pcs == [i \in 1..Len(b) |-> b[i].pc]
      c0  == [cache |-> a2l_cache, calls |-> a2l_calls, a2ls |-> <<>>]
  IN  IF cache
      THEN CachedResolve(c0, pcs)
      ELSE [cache |-> a2l_cache,
            calls |-> MapPut(a2l_calls, 0, Count(a2l_calls, 0) + 1),
            a2ls  |-> DropLast(Popen([i \in 1..Len(pcs) |-> IntBase16(pcs[i])]))]

(***************************************************************************)
(* flush.                                                                  *)
(***************************************************************************)
\* the IndexError of buf.pop(0) or buf[0] (lines 83-89), and of
\* a2ls.pop(0) or a2ls[0] (lines 98-102)
IndexErrorBuf == "IndexError: buf"
IndexErrorA2ls == "IndexError: a2ls"

\* range(len(buf))
DrainCount_All(b) == Len(b)

\* range(len(buf)-1)
DrainCount(b) == IF Len(b) - 1 > 0 THEN Len(b) - 1 ELSE 0

\* the successor read before the record is popped: the record itself
NextTime_BeforePop(time, succ) ==
  IF time \in DOMAIN lah THEN lah[time] ELSE time

\* the lookahead entry forgotten
NextTime_NoLookahead(time, succ) == Basis(succ)

\* lines 85-93: the successor's time stamp, or the lookahead entry
NextTime(time, succ) ==
  IF time \in DOMAIN lah THEN lah[time] ELSE Basis(succ)

\* the Banshee case forgotten
Duration_AlwaysGap(time, next_time) == next_time - time

\* lines 116-122
Duration(time, next_time) == IF banshee THEN 1 ELSE next_time - time

\* lines 118-124
Pid(priv, hid) ==
  elf \o ":hartid" \o (IF banshee THEN priv ELSE ToString(hid))

\* lines 100-103: the lines up to the next one that starts with '0x'
RECURSIVE Inlined(_)
Inlined(a) ==
  IF a = <<>> THEN [err |-> TRUE, text |-> "", rest |-> a]
  ELSE IF StartsWith0x(Head(a)) THEN [err |-> FALSE, text |-> "", rest |-> a]
  ELSE LET r == Inlined(Tail(a))
       IN  [r EXCEPT !.text = "(inlined by) " \o Head(a) \o r.text]

\* lines 106-141: the event written for one record
MkEvent(rec, time, duration, hid, sym, inl) ==
  [tok |-> "event", name |-> rec.instr, cat |-> "instr", ph |-> "X",
   ts |-> time, dur |-> duration, pid |-> Pid(rec.priv, hid),
   tid |-> sym[2], pc |-> sym[1],
   instr |-> rec.instr \o " " \o rec.args, time |-> rec.cyc,
   Origin |-> sym[3], inline |-> inl]

\* lines 82-141: n more iterations of the loop on buffer b, symbol lines a
\* and output out; err names the list that a pop or an index found empty
RECURSIVE FlushLoop(_, _, _, _, _)
FlushLoop(n, b, a, out, hid) ==
  IF n = 0 THEN [buf |-> b, out |-> out, err |-> ""]
  ELSE IF b = <<>> THEN [buf |-> b, out |-> out, err |-> IndexErrorBuf]
  ELSE IF Tail(b) = <<>>
  THEN [buf |-> Tail(b), out |-> out, err |-> IndexErrorBuf]
  ELSE
    LET rec  == Head(b)
        b1   == Tail(b)
        time == Basis(rec)
        nt   == NextTime(time, Head(b1))
    IN  IF Len(a) < 3 THEN [buf |-> b1, out |-> out, err |-> IndexErrorA2ls]
        ELSE
          LET inl == Inlined(SubSeq(a, 4, Len(a)))
          IN  IF inl.err
              THEN [buf |-> b1, out |-> out, err |-> IndexErrorA2ls]
              ELSE FlushLoop(n - 1, b1, inl.rest,
                     Append(out, MkEvent(rec, time, Duration(time, nt),
                                         hid, a, inl.text)),
                     hid)

\* flush(buf, hartid)
Flush(b, hid) ==
  LET r == Resolve(b)
      f == FlushLoop(DrainCount(b), b, r.a2ls, output_file, hid)
  IN  [buf |-> f.buf, out |-> f.out, err |-> f.err,
       cache |-> r.cache, calls |-> r.calls]

(***************************************************************************)
(* The script.                                                             *)
(***************************************************************************)
Header == [tok |-> "header"]   \* '{"traceEvents": [\n'
Footer == [tok |-> "footer"]   \* '{}]}\n'

\* the footer without its empty object
WriteTokens_BareFooter(w) ==
  IF w.tok = "header" THEN <<"{", "traceEvents:", "[">>
  ELSE IF w.tok = "event" THEN <<"object", ",">>
  ELSE <<"]", "}">>

\* the JSON tokens of one write: '{"traceEvents": [' (line 291), an object
\* and a comma (lines 135-141), '{}]}' (line 323)
WriteTokens(w) ==
  IF w.tok = "header" THEN <<"{", "traceEvents:", "[">>
  ELSE IF w.tok = "event" THEN <<"object", ",">>
  ELSE <<"object", "]", "}">>

\* the tokens of the file after the writes out
RECURSIVE Document(_)
Document(out) ==
  IF out = <<>> THEN <<>>
  ELSE WriteTokens(Head(out)) \o Document(Tail(out))

\* re.findall(r'\d+', filename) of the k-th trace file of the command line:
\* the odd ones are named like trace_hart_0_<6+k>, the even ones carry no number
ParsedNums(k) == IF k % 2 = 1 THEN <<0, 6 + k>> ELSE <<>>

\* lines 294-296
HartOfName(parsed_nums) ==
  IF Len(parsed_nums) > 0 THEN parsed_nums[Len(parsed_nums)] ELSE 0 + 1

\* the runs of the model: banshee, use_time, cache and what the tool prints
Configs ==
  {<<FALSE, FALSE, TRUE, "none">>, <<FALSE, TRUE, FALSE, "none">>,
   <<TRUE, FALSE, TRUE, "none">>,  <<TRUE, TRUE, FALSE, "none">>,
   <<TRUE, FALSE, TRUE, "empty">>, <<TRUE, TRUE, FALSE, "short">>}

\* the state when the JSON header has been written (line 291)
Init ==
  /\ ntraces \in 1..MaxFiles
  /\ \E c \in Configs :
        banshee = c[1] /\ use_time = c[2] /\ cache = c[3] /\ a2l_fault = c[4]
  /\ npcs = Cardinality(Pcs)
  /\ exc = ""
  /\ phase = "open"
  /\ fileno = 0
  /\ hartid = 0
  /\ file_lines = <<>>
  /\ all_lines = <<>>
  /\ idx = 0
  /\ lah = EmptyMap
  /\ loc = NoLocals
  /\ buf = <<>>
  /\ a2l_cache = <<>>
  /\ a2l_calls = EmptyMap
  /\ output_file = <<Header>>
  /\ lines = 0
  /\ fails = 0
  /\ last_cyc = 0
  /\ nread = 0
  /\ decoded = <<>>

\* lines 293-301: the loop takes the next trace file
OpenFile ==
  /\ phase = "open"
  /\ fileno < ntraces
  /\ fileno' = fileno + 1
  /\ hartid' = HartOfName(ParsedNums(fileno + 1))
  /\ fails' = 0
  /\ lines' = 0
  /\ last_cyc' = 0
  /\ file_lines' = <<>>
  /\ phase' = "read"
  /\ UNCHANGED <<a2l_fault, npcs, ntraces, banshee, use_time, cache,
                 exc, all_lines, idx, lah, loc, buf,
                 a2l_cache, a2l_calls, output_file, nread, decoded>>

\* the files of the model.  A single file: any lines in a file of at most
\* MaxRich+1 lines (the last of them plain), plain instructions after the
\* first MaxPrefix lines of a longer one.  Several files: MaxMulti lines in
\* all, each a load or its completion.
MayRead(l) ==
  LET n == Len(file_lines) + 1
  IN  IF ntraces = 1
      THEN /\ n <= MaxLines
           /\ l \in LinesAt(banshee, n)
           /\ n > MaxRich => l = PlainLine(banshee, n)
           /\ n > MaxRich + 1 =>
                \A i \in (MaxPrefix + 1)..(n - 1) :
                   file_lines[i] = PlainLine(banshee, i)
      ELSE /\ nread < MaxMulti
           /\ l \in MultiLinesAt(banshee, n)

\* open(filename).readlines(), one line of the file
ReadLine(l) ==
  /\ phase = "read"
  /\ MayRead(l)
  /\ file_lines' = Append(file_lines, l)
  /\ nread' = nread + 1
  /\ UNCHANGED <<a2l_fault, npcs, ntraces, banshee, use_time, cache,
                 exc, phase, fileno, hartid, all_lines,
                 idx, lah, loc, buf, a2l_cache, a2l_calls, output_file,
                 lines, fails, last_cyc, decoded>>

\* lines 302-307: the slice of the lines, then the pre-pass unless banshee
Slice ==
  /\ phase = "read"
  /\ all_lines' = PySlice(file_lines, ArgStart, ArgEnd)
  /\ idx' = 0
  /\ loc' = NoLocals
  /\ phase' = IF banshee THEN "parse" ELSE "lah"
  /\ UNCHANGED <<a2l_fault, npcs, ntraces, banshee, use_time, cache,
                 exc, fileno, hartid, file_lines, lah,
                 buf, a2l_cache, a2l_calls, output_file, lines, fails,
                 last_cyc, nread, decoded>>

\* lines 249-280: one line of the pre-pass
LookaheadStep ==
  /\ phase = "lah"
  /\ idx < Len(all_lines)
  /\ LET r == LookaheadLine(loc, all_lines[idx + 1])
     IN  /\ loc' = r.loc
         /\ phase' = IF r.err THEN "error" ELSE "lah"
         /\ exc' = IF r.err THEN "UnboundLocalError" ELSE exc
         /\ idx' = IF r.err THEN idx ELSE idx + 1
  /\ UNCHANGED <<a2l_fault, npcs, ntraces, banshee, use_time, cache,
                 fileno, hartid, file_lines,
                 all_lines, lah, buf, a2l_cache, a2l_calls, output_file,
                 lines, fails, last_cyc, nread, decoded>>

\* lines 284, 307: lah = offload_lookahead(all_lines)
LookaheadReturn ==
  /\ phase = "lah"
  /\ idx = Len(all_lines)
  /\ lah' = loc.lah
  /\ phase' = "parse"
  /\ idx' = 0
  /\ UNCHANGED <<a2l_fault, npcs, ntraces, banshee, use_time, cache,
                 exc, fileno, hartid, file_lines,
                 all_lines, loc, buf, a2l_cache, a2l_calls, output_file,
                 lines, fails, last_cyc, nread, decoded>>

\* the drain one record early
NeedsFlush_AtThreshold(b) == Len(b) >= FlushThreshold

\* line 154: len(buf) > 10
NeedsFlush(b) == Len(b) > FlushThreshold

\* the record put in front of the buffer
ParseAppend_Front(b, line) ==
  IF line.kind = "instr" THEN <<RecOf(line)>> \o b ELSE b

\* lines 147-151: a match of re_line appends its record to buf
ParseAppend(b, line) ==
  IF line.kind = "instr" THEN Append(b, RecOf(line)) ELSE b

\* lines 144-156 and 312-318: parse_line on the next line
ParseLine ==
  /\ phase = "parse"
  /\ idx < Len(all_lines)
  /\ LET line  == all_lines[idx + 1]
         match == line.kind = "instr"
         buf1  == ParseAppend(buf, line)
         f     == Flush(buf1, hartid)
     IN  /\ decoded' = IF match
                       THEN Append(decoded, [rec |-> RecOf(line), file |-> fileno])
                       ELSE decoded
         /\ last_cyc' = IF match THEN line.cyc ELSE last_cyc
         /\ IF NeedsFlush(buf1)
            THEN /\ buf' = f.buf
                 /\ output_file' = f.out
                 /\ a2l_cache' = f.cache
                 /\ a2l_calls' = f.calls
                 /\ phase' = IF f.err # "" THEN "error" ELSE "parse"
                 /\ exc' = f.err
            ELSE /\ buf' = buf1
                 /\ UNCHANGED <<output_file, a2l_cache, a2l_calls, phase, exc>>
  /\ idx' = idx + 1
  /\ lines' = lines + 1
  /\ fails' = fails + 0
  /\ UNCHANGED <<a2l_fault, npcs, ntraces, banshee, use_time, cache,
                 fileno, hartid, file_lines,
                 all_lines, lah, loc, nread>>

\* lines 319-320: the flush at the end of the file
FinalFlush ==
  /\ phase = "parse"
  /\ idx = Len(all_lines)
  /\ LET f == Flush(buf, hartid)
     IN  /\ buf' = f.buf
         /\ output_file' = f.out
         /\ a2l_cache' = f.cache
         /\ a2l_calls' = f.calls
         /\ phase' = IF f.err # "" THEN "error" ELSE "open"
         /\ exc' = f.err
  /\ UNCHANGED <<a2l_fault, npcs, ntraces, banshee, use_time, cache,
                 fileno, hartid, file_lines,
                 all_lines, idx, lah, loc, lines, fails, last_cyc, nread,
                 decoded>>

\* line 323: the JSON footer, after the last file
WriteFooter ==
  /\ phase = "open"
  /\ fileno = ntraces
  /\ output_file' = Append(output_file, Footer)
  /\ phase' = "done"
  /\ UNCHANGED <<a2l_fault, npcs, ntraces, banshee, use_time, cache,
                 exc, fileno, hartid, file_lines,
                 all_lines, idx, lah, loc, buf, a2l_cache, a2l_calls, lines,
                 fails, last_cyc, nread, decoded>>

Next ==
  \/ OpenFile
  \/ \E l \in LinesAt(banshee, Len(file_lines) + 1) : ReadLine(l)
  \/ Slice
  \/ LookaheadStep
  \/ LookaheadReturn
  \/ ParseLine
  \/ FinalFlush
  \/ WriteFooter

Spec == Init /\ [][Next]_vars

(***************************************************************************)
(* The cached symbolizer on its own: the calls of addr2line_cache that the *)
(* loop of line 76 makes over a run in the cached mode, for traces whose   *)
(* program counters go round npcs distinct addresses.                      *)
(***************************************************************************)
\* the numbers of distinct addresses tried
PcCounts == {2, CacheSize - 1, CacheSize, CacheSize + 1}

\* the k-th program counter submitted, counted from 0
PcOfCall(k) == 4096 + 4 * (k % npcs)

CacheInit ==
  /\ a2l_fault = "none"
  /\ npcs \in PcCounts
  /\ exc = ""
  /\ ntraces = 1
  /\ banshee = FALSE
  /\ use_time = FALSE
  /\ cache = TRUE
  /\ phase = "resolve"
  /\ fileno = 1
  /\ hartid = HartOfName(ParsedNums(1))
  /\ file_lines = <<>>
  /\ all_lines = <<>>
  /\ idx = 0
  /\ lah = EmptyMap
  /\ loc = NoLocals
  /\ buf = <<>>
  /\ a2l_cache = <<>>
  /\ a2l_calls = EmptyMap
  /\ output_file = <<Header>>
  /\ lines = 0
  /\ fails = 0
  /\ last_cyc = 0
  /\ nread = 0
  /\ decoded = <<>>

\* lines 76-77: a2ls += addr2line_cache(int(addr, base=16))[:-1]
CacheRequest ==
  /\ phase = "resolve"
  /\ cache
  /\ idx < MaxCalls
  /\ LET c == CacheCall([cache |-> a2l_cache, calls |-> a2l_calls,
                         a2ls |-> <<>>], PcOfCall(idx))
     IN  /\ a2l_cache' = c.cache
         /\ a2l_calls' = c.calls
  /\ idx' = idx + 1
  /\ UNCHANGED <<a2l_fault, npcs, exc, ntraces, banshee, use_time, cache,
                 phase, fileno, hartid, file_lines, all_lines, lah, loc, buf,
                 output_file, lines, fails, last_cyc, nread, decoded>>

CacheNext == CacheRequest

SpecCache == CacheInit /\ [][CacheNext]_vars

(***************************************************************************)
(* Properties.                                                             *)
(*                                                                         *)
(* Events are compared with the records in the order they were decoded:    *)
(* decoded[i] is the i-th record parse_line appended to buf in the run.    *)
(***************************************************************************)
Events == SelectSeq(output_file, LAMBDA e : e.tok = "event")

\* the events the step writes
NewEvents == (Len(Events) + 1)..Len(Events')

\* the time stamp of the i-th decoded record, in the configured basis
TsOf(i) == IF use_time THEN decoded[i].rec.time ELSE decoded[i].rec.cyc

\* the final flush of the current file has run
AfterFlush == phase \in {"open", "done"} /\ fileno >= 1

\* the line is a decoded record that issues a load into register r
IsLoadOf(line, r) ==
  /\ line.kind = "instr"
  /\ \E k \in 1..Len(line.cmt) :
        /\ line.cmt[k] = [t |-> "ld", reg |-> r]
        /\ \A j \in 1..(k - 1) : line.cmt[j].t # "ld"

\* the line's comment holds the completion marker of register r
Completes(line, r) ==
  /\ line.kind \in {"instr", "acc"}
  /\ \E k \in 1..Len(line.cmt) : line.cmt[k] = [t |-> "done", reg |-> r]

\* the time stamp of a line of the file, in the configured basis
LineTs(line) == IF use_time THEN line.time ELSE line.cyc

\* the table in force is the one the pre-pass built from all_lines
TableOfFile == ~banshee /\ phase \in {"parse", "open", "done"} /\ fileno >= 1

(* C1: after every line of a file is decoded and the end-of-file flush has *)
(* run, every record decoded so far has been emitted as an Event and the   *)
(* window buffer is empty.                                                 *)
C1_AllEmittedAfterFlush ==
  AfterFlush => buf = <<>> /\ Len(Events) = Len(decoded)

(* C2: RTL dialect: an Event whose time stamp has no entry in the          *)
(* lookahead table has as duration the time stamp of the record decoded    *)
(* next minus its own, wherever the drains fall.                           *)
C2_SuccessorDuration ==
  [][~banshee =>
       \A i \in NewEvents :
          Events'[i].ts \notin DOMAIN lah =>
             /\ i + 1 <= Len(decoded')
             /\ Events'[i].ts = TsOf(i)'
             /\ Events'[i].dur = TsOf(i + 1)' - TsOf(i)']_vars

\* cycles 10, 12, 15 give the durations 2 and 3, and the 11th record, the
\* one a drain left in the buffer, gets its duration from the 12th
C2_Witness ==
  /\ ~banshee /\ ~use_time /\ lah = EmptyMap
  /\ Len(Events) >= 11
  /\ Events[1].ts = 10 /\ Events[1].dur = 2
  /\ Events[2].ts = 12 /\ Events[2].dur = 3
  /\ Events[11].dur = TsOf(12) - TsOf(11)

(* C3: RTL dialect: an Event whose time stamp t has an entry in the        *)
(* lookahead table has the duration lah[t] - t.                            *)
C3_LookaheadDuration ==
  [][~banshee =>
       \A i \in NewEvents :
          Events'[i].ts \in DOMAIN lah =>
             /\ Events'[i].ts = TsOf(i)'
             /\ Events'[i].dur = lah[TsOf(i)'] - TsOf(i)']_vars

\* an Event whose lookahead duration is not the gap to the next record
C3_Witness ==
  /\ ~banshee /\ ntraces = 1 /\ phase = "done"
  /\ \E i \in 1..Len(Events) :
        /\ Events[i].ts \in DOMAIN lah
        /\ Events[i].dur = lah[Events[i].ts] - Events[i].ts
        /\ Events[i].dur # TsOf(i + 1) - TsOf(i)

\* the first line after line i whose comment completes register r, or 0
FirstCompletionAfter(i, r) ==
  LET js == {j \in (i + 1)..Len(all_lines) : Completes(all_lines[j], r)}
  IN  IF js = {} THEN 0 ELSE CHOOSE j \in js : \A k \in js : j <= k

(* C4: the pre-pass maps the issue time of every deferred-load record      *)
(* whose completion marker for the same register is on a later line to the *)
(* time stamp of the first such later line.                                *)
C4_MapsToFirstLaterCompletion ==
  TableOfFile =>
    \A i \in 1..Len(all_lines) : \A r \in Regs :
       IsLoadOf(all_lines[i], r) /\ FirstCompletionAfter(i, r) # 0 =>
          /\ LineTs(all_lines[i]) \in DOMAIN lah
          /\ lah[LineTs(all_lines[i])] =
                LineTs(all_lines[FirstCompletionAfter(i, r)])

(* C5: when two searches for the same register are open at once, the      *)
(* first later line with the completion pattern closes only the earlier    *)
(* one: the later one is closed by the next line with the pattern, or is   *)
(* left open when there is none.                                           *)
C5_ReusedRegisterClosedInTurn ==
  TableOfFile =>
    \A i \in 1..Len(all_lines) : \A j \in (i + 1)..Len(all_lines) :
      \A r \in Regs :
        LET c1 == FirstCompletionAfter(j, r)
            c2 == FirstCompletionAfter(c1, r)
        IN  ( /\ IsLoadOf(all_lines[i], r)
              /\ IsLoadOf(all_lines[j], r)
              /\ \A k \in 1..(i - 1) : ~IsLoadOf(all_lines[k], r)
              /\ \A k \in 1..j : ~Completes(all_lines[k], r)
              /\ c1 # 0 )
            => /\ lah[LineTs(all_lines[i])] = LineTs(all_lines[c1])
               /\ IF c2 = 0
                  THEN LineTs(all_lines[j]) \notin DOMAIN lah
                  ELSE lah[LineTs(all_lines[j])] = LineTs(all_lines[c2])

(* C6: a search is matched only by a line after the one that created it:   *)
(* the time stamps of a file grow with its lines, so every completion time *)
(* the pre-pass records is later than its issue time.                      *)
C6_MatchedOnlyByLaterLine ==
  \A t \in DOMAIN loc.lah : loc.lah[t] > t

C8_BansheeEvents ==
  banshee =>
    \A i \in 1..Len(Events) :
       /\ i <= Len(decoded)
       /\ Events[i].dur = 1
       /\ Events[i].pid = elf \o ":hartid" \o decoded[i].rec.priv
       /\ Events[i].pid #
             elf \o ":hartid" \o ToString(HartOfName(ParsedNums(decoded[i].file)))

\* an Event of hart 0005 whose successor is 2 cycles later
C8_Witness ==
  /\ banshee /\ use_time
  /\ \E i \in 1..Len(Events) :
        /\ decoded[i].rec.priv = "0005"
        /\ Events[i].pid = "a.elf:hartid0005"
        /\ Events[i].dur = 1
        /\ TsOf(i + 1) - TsOf(i) = 2

\* the Event is the one flush writes for the record
EventOfRecord(e, rec) ==
  /\ e.name = rec.instr
  /\ e.ts = (IF use_time THEN rec.time ELSE rec.cyc)
  /\ e.time = rec.cyc
  /\ e.instr = rec.instr \o " " \o rec.args

(* C9: Events are written in the order their records were decoded, over   *)
(* all drains and final flushes, and no record is emitted twice: the i-th  *)
(* Event written is the Event of the i-th record decoded.                  *)
C9_EventsInDecodeOrder ==
  /\ Len(Events) <= Len(decoded)
  /\ \A i \in 1..Len(Events) : EventOfRecord(Events[i], decoded[i].rec)

\* a drain of ten records and a final flush of one more
C9_Witness ==
  /\ phase = "done"
  /\ Len(Events) = 11
  /\ \A i \in 1..11 : \A j \in 1..11 : i # j => Events[i].ts # Events[j].ts

(* C10: a line that matches neither expression, wherever it is in the      *)
(* file, raises no error in the pre-pass or in the decoder: no record is   *)
(* created, no search is opened or closed, and the loop goes on to the     *)
(* next line.                                                              *)
C10_UnmatchedLineIsSkipped ==
  [][(/\ phase \in {"lah", "parse"}
      /\ idx < Len(all_lines)
      /\ all_lines[idx + 1].kind = "other")
     => /\ phase' = phase
        /\ idx' = idx + 1
        /\ loc'.searches = loc.searches
        /\ loc'.lah = loc.lah
        /\ decoded' = decoded
        /\ buf' = buf]_vars

\* the lines of the slice that matched re_line
MatchedLines == {i \in 1..Len(all_lines) : all_lines[i].kind = "instr"}

(* C11: when a file has been processed, the reported number of parsed      *)
(* lines, lines - fails, is the number of lines that matched the grammar:  *)
(* the lines handed to the decoder minus the unmatched ones.               *)
C11_ParsedCountIsMatchedLines ==
  AfterFlush => lines - fails = Cardinality(MatchedLines)

(* C12, as first stated: in the cached mode the symbolizer is invoked at   *)
(* most once for each distinct address over the whole run, for any number  *)
(* of distinct addresses, more than the capacity of the cache included.    *)
C12_OncePerAddress ==
  cache => \A a \in DOMAIN a2l_calls : a2l_calls[a] <= 1

(* C12: in the cached mode the symbolizer is invoked at most once for each *)
(* distinct address over the whole run, as long as the run has no more     *)
(* distinct addresses than the capacity of the cache (1024): an address    *)
(* evicted from a full cache is resolved again when it comes back.         *)
C12_OncePerAddressWithinCapacity ==
  (cache /\ npcs <= CacheSize) => \A a \in DOMAIN a2l_calls : a2l_calls[a] <= 1

\* a cache filled to its capacity whose oldest addresses were asked again
C12_Witness ==
  /\ phase = "resolve"
  /\ npcs = CacheSize
  /\ Len(a2l_cache) = CacheSize
  /\ idx = CacheSize + 2
  /\ a2l_calls[PcOfCall(0)] = 1

\* the buffer flush is called on in the step from this state, <<>> if the
\* step calls no flush
FlushArg ==
  IF phase # "parse" THEN <<>>
  ELSE IF idx = Len(all_lines) THEN buf
  ELSE LET line == all_lines[idx + 1]
           b    == IF line.kind = "instr" THEN Append(buf, RecOf(line)) ELSE buf
       IN  IF Len(b) > FlushThreshold THEN b ELSE <<>>

\* the tool prints less than the whole block for the program counter
ShortFor(pc) ==
  Len(A2lLines(IntBase16(pc))) < Len(A2lBlock(IntBase16(pc)))

WellFormed(d) ==
  /\ Len(d) >= 5
  /\ SubSeq(d, 1, 3) = <<"{", "traceEvents:", "[">>
  /\ SubSeq(d, Len(d) - 1, Len(d)) = <<"]", "}">>
  /\ LET elems == SubSeq(d, 4, Len(d) - 2)
     IN  \/ elems = <<>>
         \/ /\ Len(elems) % 2 = 1
            /\ \A k \in 1..Len(elems) :
                 elems[k] = (IF k % 2 = 1 THEN "object" ELSE ",")

(* C14: for any number of Events written, none included, the document of  *)
(* a finished run is a well-formed token sequence: the header that opens   *)
(* the traceEvents array, the array elements with exactly one separator    *)
(* between two of them, no separator right before the closing bracket, and *)
(* the closing of the array and of the object.                             *)
C14_DocumentWellFormed ==
  phase = "done" => WellFormed(Document(output_file))

\* a finished document with several Events
C14_Witness ==
  /\ phase = "done"
  /\ Len(Events) >= 2
  /\ Len(Document(output_file)) = 3 + 2 * Len(Events) + 3

\* the continuation lines of a block, each after the text '(inlined by) '
RECURSIVE InlineText(_)
InlineText(ls) ==
  IF ls = <<>> THEN ""
  ELSE "(inlined by) " \o Head(ls) \o InlineText(Tail(ls))

(* C15: when the symbolizer prints its whole block for every address, the  *)
(* i-th record drained takes the block of its own program counter and no   *)
(* line of another: the Event has the address, function and origin of that *)
(* block and, as inline text, all its continuation lines, the reading      *)
(* stopping at the address line of the next block, also for the last       *)
(* record a flush drains.                                                  *)
C15_OwnBlockConsumed ==
  a2l_fault = "none" =>
    \A i \in 1..Len(Events) :
       /\ i <= Len(decoded)
       /\ LET blk == A2lBlock(IntBase16(decoded[i].rec.pc))
          IN  /\ Events[i].pc = blk[1]
              /\ Events[i].tid = blk[2]
              /\ Events[i].Origin = blk[3]
              /\ Events[i].inline = InlineText(SubSeq(blk, 4, Len(blk)))

\* the last record a final flush drained has two continuation lines, and
\* the record left in the buffer was resolved with it
C15_Witness ==
  /\ a2l_fault = "none"
  /\ phase = "done"
  /\ Len(Events) >= 2
  /\ Len(decoded) = Len(Events) + 1
  /\ Events[Len(Events)].pc = "0x0000000000001004"
  /\ Events[Len(Events)].inline = "(inlined by) main(inlined by) main.c:12"
  /\ Events[Len(Events) - 1].inline = ""

\* the process id of an RTL Event of a record of the k-th trace file
PidOfFile(k) == elf \o ":hartid" \o ToString(HartOfName(ParsedNums(k)))

(* C16: the Events of different trace files are isolated.  The duration of *)
(* every Event comes from the successor record of the same file and from   *)
(* the lookahead table of that file, so the Event is written while its own *)
(* file is the one being processed; the process id of an RTL Event has the *)
(* hart id of the file of its record; and no buffered record survives from *)
(* one file into the next: the buffer is empty when a file is opened.      *)
C16_FilesIsolated ==
  /\ [](/\ \A i \in 1..Len(Events) :
             /\ i + 1 <= Len(decoded)
             /\ decoded[i + 1].file = decoded[i].file
             /\ ~banshee => Events[i].pid = PidOfFile(decoded[i].file)
        /\ phase \in {"read", "lah"} => buf = <<>>)
  /\ [][\A i \in NewEvents :
          i <= Len(decoded') /\ decoded'[i].file = fileno]_vars

\* the step from this state calls flush
FlushCalled ==
  phase = "parse" /\ (idx = Len(all_lines) \/ Len(FlushArg) > 0)

(* C17: a record is finalized only while the buffer holds a successor.  A  *)
(* flush of a buffer of no record or of one record writes nothing, leaves  *)
(* the buffer as it is and reads no place of the buffer that is not there; *)
(* a flush of n >= 2 records drains the n-1 oldest and, for each of them,  *)
(* the record next to it in the buffer is its successor and is still there *)
(* when the Event is written.                                              *)
C17_SuccessorInBuffer ==
  /\ [](exc # IndexErrorBuf)
  /\ [][FlushCalled =>
         LET b == FlushArg
             n == Len(b)
         IN  /\ n <= 1 => /\ Len(Events') = Len(Events)
                          /\ buf' = b
                          /\ exc' = ""
             /\ n >= 2 =>
                  /\ exc' = "" => /\ Len(Events') = Len(Events) + n - 1
                                  /\ buf' = <<b[n]>>
                  /\ \A i \in NewEvents :
                       LET k == i - Len(Events)
                       IN  /\ k + 1 <= n
                           /\ i + 1 <= Len(decoded')
                           /\ b[k] = decoded'[i].rec
                           /\ b[k + 1] = decoded'[i + 1].rec]_vars

\* the final flush of the first file, of one record, wrote nothing; the
\* one of the second file, of three records, wrote two Events
C17_Witness ==
  /\ phase = "done"
  /\ ntraces = 2
  /\ Len(decoded) = 3
  /\ decoded[1].file = 1
  /\ decoded[3].file = 2
  /\ Len(Events) = 2
  /\ exc = ""

(* C18: after every call of the decoder that returns, the buffer holds at  *)
(* most 10 records.  The call drains exactly when its append makes the     *)
(* size of the buffer exceed 10: the drain then writes the Events of the   *)
(* size-1 oldest records and leaves the newest record alone in the buffer; *)
(* any other call writes nothing and drains nothing.                       *)
C18_DrainAtEleven ==
  /\ [](exc = "" => Len(buf) <= 10)
  /\ [][(phase = "parse" /\ idx < Len(all_lines)) =>
         LET line     == all_lines[idx + 1]
             appended == line.kind = "instr"
             b        == IF appended THEN Append(buf, RecOf(line)) ELSE buf
             size     == Len(b)
         IN  IF appended /\ size > 10
             THEN exc' = "" =>
                    /\ Len(Events') = Len(Events) + size - 1
                    /\ \A i \in NewEvents :
                         /\ i <= Len(decoded')
                         /\ decoded'[i].rec = b[i - Len(Events)]
                    /\ buf' = <<RecOf(line)>>
             ELSE /\ Len(Events') = Len(Events)
                  /\ buf' = b
                  /\ exc' = exc]_vars

\* the call on the 11th record has drained ten and left the 11th
C18_Witness ==
  /\ phase = "parse"
  /\ exc = ""
  /\ Len(decoded) = 11
  /\ Len(Events) = 10
  /\ buf = <<decoded[11].rec>>

\* the lines of the current file handed to the decoder so far
DecoderInput ==
  IF phase = "parse" THEN SubSeq(all_lines, 1, idx)
  ELSE IF phase \in {"open", "done"} /\ fileno >= 1 THEN all_lines
  ELSE <<>>

(* C19: with no start or end bound configured, every line of a trace file, *)
(* the last one included, is handed once and in order to the pre-pass and  *)
(* then to the decoder: the lines processed are the lines of the file, and *)
(* when the file is done the decoder has been given all of them.           *)
C19_EveryLineProcessed ==
  /\ phase \in {"lah", "parse"} => all_lines = file_lines
  /\ AfterFlush => DecoderInput = file_lines

\* the comment has the deferred-load marker and no register in front of it
EmptyRegisterLoad(cmt) ==
  \E k \in 1..Len(cmt) :
     /\ cmt[k] = Ld("")
     /\ \A j \in 1..(k - 1) : cmt[j].t # "ld"

(* C20: a line whose comment has the deferred-load marker but an empty     *)
(* destination register makes the pre-pass report a warning and open no    *)
(* PendingSearch for it, and the Event of the line gets the duration up to *)
(* its sequential successor.                                               *)
C20_EmptyRegisterWarns ==
  /\ [][(/\ phase = "lah"
         /\ idx < Len(all_lines)
         /\ all_lines[idx + 1].kind = "instr"
         /\ EmptyRegisterLoad(all_lines[idx + 1].cmt))
        => /\ loc'.warned = loc.warned + 1
           /\ Len(loc'.searches) <= Len(loc.searches)]_vars
  /\ [](\A i \in 1..Len(Events) :
          (~banshee /\ i + 1 <= Len(decoded)
                    /\ EmptyRegisterLoad(decoded[i].rec.cmt))
          => Events[i].dur = TsOf(i + 1) - TsOf(i))

====
